---- MODULE Spec2Model ----
(***************************************************************************)
(* Model of the Obsidian -> Hugo publishing core:                          *)
(*   src/src/utils/parallel.py               parallel_process              *)
(*   src/src/core/front_matter.py            FrontMatter, parsing, mapping *)
(*   src/src/handlers/obsidian_image_handler.py   asset resolution         *)
(*   src/src/core/blog_processor.py          batch run, publish state      *)
(*   src/hugo_publish_blog.py                UnpublishHandler              *)
(*                                                                         *)
(* Text is modelled as a sequence of one-character strings (names, titles) *)
(* or as a sequence of tokens (note files, bodies), so that lower(),       *)
(* replace() and split() are computed and not assumed.                     *)
(***************************************************************************)
EXTENDS Naturals, Sequences, FiniteSets, TLC

(***************************************************************************)
(* Bounds of the model.                                                    *)
(***************************************************************************)
\* at most this many note files exist under the source root
MaxNotes == 2
\* at most this many batch runs happen in one behaviour
MaxRuns == 2

(***************************************************************************)
(* Strings                                                                 *)
(***************************************************************************)
SetMin(S) == CHOOSE x \in S : \A y \in S : x <= y

Range(s) == {s[i] : i \in DOMAIN s}

\* a local variable: v is evaluated once, and F reads the value
WithLocal(v, F(_)) == CHOOSE r \in {F(x) : x \in {v}} : TRUE

\* str.lower() on the alphabet of the model
LowerChar(c) == IF c = "A" THEN "a" ELSE IF c = "B" THEN "b" ELSE c

Lower(s) == [i \in DOMAIN s |-> LowerChar(s[i])]

\* str.replace(from, to) for one-character from/to
Replace(s, from, to) == [i \in DOMAIN s |-> IF s[i] = from THEN to ELSE s[i]]

Contains(s, c) == \E i \in DOMAIN s : s[i] = c

\* title.lower().replace(' ', '-')
Slug(title) == Replace(Lower(title), " ", "-")

\* image_name.split('#')[0].split('?')[0]
CleanName(name) ==
    LET cut == {i \in DOMAIN name : name[i] \in {"#", "?"}}
    IN  IF cut = {} THEN name ELSE SubSeq(name, 1, SetMin(cut) - 1)

(***************************************************************************)
(* Tokens of a note file and of a body                                     *)
(***************************************************************************)
\* the line "---\n"
Delim == [k |-> "delim"]
\* the text between the delimiters, by what yaml.safe_load makes of it
YamlDict(d) == [k |-> "yaml", kind |-> "dict", d |-> d]
YamlError == [k |-> "yaml", kind |-> "error"]
YamlScalar == [k |-> "yaml", kind |-> "scalar"]
\* ![[name]]
Embed(name) == [k |-> "embed", name |-> name]
\* ![alt](name)
MdImage(alt, name) == [k |-> "md", alt |-> alt, name |-> name]
\* ![alt]({{< ref "name" >}})
RefImage(alt, name) == [k |-> "ref", alt |-> alt, name |-> name]
\* an empty line
Blank == [k |-> "blank"]
\* any other line of text
Para == [k |-> "text"]

\* a header value as YAML gives it: a list, a bare string, null, or no key
AsList(v) == [t |-> "list", v |-> v]
AsStr(c) == [t |-> "str", v |-> <<c>>]
AsNull == [t |-> "null", v |-> <<>>]

(***************************************************************************)
(* FrontMatter                                                             *)
(***************************************************************************)
\* a header value that is a number
AsInt == [t |-> "int", v |-> <<"5">>]

\* tags / categories in _normalize_fields: a str becomes [str], None becomes
\* [], anything else stays what it is
NormalizeValue(raw) ==
    IF raw.t = "str" THEN AsList(<<raw.v[1]>>)
    ELSE IF raw.t = "null" THEN AsList(<<>>)
    ELSE raw

\* the tags / categories property of a FrontMatter
NormalizeList(raw) == NormalizeValue(raw).v

\* _normalize_fields on the dict _data: tags and categories are set, with
\* [] as default; every other value that is None becomes ''
NormalizeFields(data) ==
    [key \in DOMAIN data \cup {"tags", "categories"} |->
        IF key \in {"tags", "categories"}
        THEN NormalizeValue(IF key \in DOMAIN data THEN data[key] ELSE AsList(<<>>))
        ELSE IF data[key].t = "null" THEN AsStr("") ELSE data[key]]

\* FrontMatter(yaml_data): the normalised fields the batch run reads
FrontMatter(d) ==
    [title |-> d.title, publish |-> d.publish,
     tags |-> NormalizeList(d.tags), categories |-> NormalizeList(d.categories)]

\* FrontMatter({}): every property at its default
EmptyData ==
    [title |-> <<>>, publish |-> FALSE, tags |-> AsList(<<>>), categories |-> AsList(<<>>)]

\* the raw form of a normalised FrontMatter, as yaml.dump writes it
ToDict(fm) ==
    [title |-> fm.title, publish |-> fm.publish,
     tags |-> AsList(fm.tags), categories |-> AsList(fm.categories)]

NoFM == [title |-> <<>>, publish |-> FALSE, tags |-> <<>>, categories |-> <<>>]

\* the text yaml.dump gives this header holds '---\n' within a line: its
\* last line is "title: <title>" with an unquoted title that ends in ---
HoldsDelim(token) ==
    /\ token.k = "yaml"
    /\ token.kind = "dict"
    /\ Len(token.d.title) > 3
    /\ token.d.title[1] \notin {"-", " "}
    /\ \A i \in (Len(token.d.title) - 2)..Len(token.d.title) : token.d.title[i] = "-"

\* a scalar as YAML loads it: without trailing spaces
RECURSIVE StripRight(_)
StripRight(s) ==
    IF s # <<>> /\ s[Len(s)] = " " THEN StripRight(SubSeq(s, 1, Len(s) - 1)) ELSE s

\* the part of such a header before the '---\n' in it
CutAtDelim(token) ==
    YamlDict([token.d EXCEPT
                 !.title = StripRight(SubSeq(token.d.title, 1, Len(token.d.title) - 3))])

\* extract_yaml_and_content: st = "ok" (FrontMatter, body), "none" (None, whole
\* text) or "raise" (FrontMatter(yaml_data) fails on data that is no dict);
\* content.split('---\n', 2) cuts at the first two occurrences of '---\n'
ExtractYamlAndContent(text) ==
    IF text = <<>> \/ text[1] # Delim
    THEN [st |-> "none", fm |-> NoFM, body |-> text]
    ELSE WithLocal({j \in 2..Len(text) : text[j] = Delim \/ HoldsDelim(text[j])},
                   LAMBDA closing :
         IF closing = {}
         THEN [st |-> "none", fm |-> NoFM, body |-> text]
         ELSE WithLocal(SetMin(closing), LAMBDA j :
              WithLocal(SubSeq(text, 2, j - 1)
                            \o (IF text[j] = Delim THEN <<>> ELSE <<CutAtDelim(text[j])>>),
                        LAMBDA header :
              WithLocal(SubSeq(text, j + 1, Len(text)), LAMBDA body :
                  IF header = <<>>
                  THEN [st |-> "ok", fm |-> FrontMatter(EmptyData), body |-> body]
                  ELSE IF Len(header) > 1 \/ header[1].k # "yaml"
                          \/ header[1].kind = "error"
                  THEN [st |-> "none", fm |-> NoFM, body |-> text]
                  ELSE IF header[1].kind = "scalar"
                  THEN [st |-> "raise", fm |-> NoFM, body |-> text]
                  ELSE [st |-> "ok", fm |-> FrontMatter(header[1].d),
                        body |-> body]))))

\* '---\n' + yaml.dump(front_matter.to_dict()) + '---\n\n' + content
WriteWithHeader(fm, content) ==
    <<Delim, YamlDict(ToDict(fm)), Delim, Blank>> \o content

(***************************************************************************)
(* The notes under the source root and the asset files on disk             *)
(***************************************************************************)
\* file name stems (md_file.stem) of the catalogue's notes
StemOf ==
    << <<"x">>, <<"y">>, <<"B">>, <<"w">>, <<"v">>, <<"u">>, <<"t">>, <<"s">> >>

\* The note files a source tree may hold: publishable notes whose titles give
\* the same slug (1, 2), a note without a title (3), a header that is YAML
\* but no mapping (4), broken YAML (5), an unclosed header (6), no header
\* (7), and a note that is not to be published (8).
Catalogue ==
    << <<Delim,
         YamlDict([title |-> <<"A", " ", "b">>, publish |-> TRUE,
                   tags |-> AsList(<<"a">>), categories |-> AsList(<<>>)]),
         Delim, Embed(<<"p", " ", "q">>), Para, Embed(<<"p", "-", "q">>)>>,
       <<Delim,
         YamlDict([title |-> <<"a", "-", "b">>, publish |-> TRUE,
                   tags |-> AsList(<<"a", "b">>), categories |-> AsStr("Y")]),
         Delim, Embed(<<"r">>), Embed(<<"m">>)>>,
       <<Delim,
         YamlDict([title |-> <<>>, publish |-> TRUE,
                   tags |-> AsStr("a"), categories |-> AsList(<<"X">>)]),
         Delim, Para>>,
       <<Delim, YamlScalar, Delim, Para>>,
       <<Delim, YamlError, Delim, Para>>,
       <<Delim,
         YamlDict([title |-> <<"b">>, publish |-> TRUE,
                   tags |-> AsNull, categories |-> AsNull]),
         Para>>,
       <<Para, Embed(<<"r">>)>>,
       <<Delim,
         YamlDict([title |-> <<"b">>, publish |-> FALSE,
                   tags |-> AsList(<<"b">>), categories |-> AsList(<<"X">>)]),
         Delim, Para>> >>

CatalogueIds == DOMAIN Catalogue

\* no such file
NoFile == <<[k |-> "nofile"]>>

\* asset files on disk: the configured image directory (paths.obsidian.images)
\* and the directory of the notes; a file in unreadable exists but cannot be
\* read, so that shutil.copy2 raises on it
AssetDisk ==
    [images |-> {<<"p", " ", "q">>}, notes |-> {<<"p", "-", "q">>, <<"r">>},
     unreadable |-> {<<"r">>}]

(***************************************************************************)
(* Asset resolver                                                          *)
(***************************************************************************)
NotFound == [found |-> FALSE, root |-> "", name |-> <<>>]

\* possible_names of find_image: the name and, with spaces, its hyphen
\* variant, or else, with hyphens, its space variant
PossibleNames(name) ==
    IF Contains(name, " ") THEN <<name, Replace(name, " ", "-")>>
    ELSE IF Contains(name, "-") THEN <<name, Replace(name, "-", " ")>>
    ELSE <<name>>

\* the roots find_image searches, in order; create_new_post passes the note's
\* own directory as the extra root
SearchRoots == <<"images", "notes", "notes">>

\* find_image over the files of disk: roots in order, the variants in order
\* in each root
FindImageIn(disk, roots, name) ==
    WithLocal(PossibleNames(name), LAMBDA names :
    WithLocal({c \in (1..Len(roots)) \X (1..Len(names)) :
                  names[c[2]] \in disk[roots[c[1]]]}, LAMBDA hits :
        IF hits = {} THEN NotFound
        ELSE WithLocal(CHOOSE c \in hits : \A e \in hits :
                          c[1] < e[1] \/ (c[1] = e[1] /\ c[2] <= e[2]), LAMBDA first :
                 [found |-> TRUE, root |-> roots[first[1]],
                  name |-> names[first[2]]])))

\* find_image on the asset files of the batch run
FindImage(name) == FindImageIn(AssetDisk, SearchRoots, name)

\* a resolver that looks the cleaned name up once
ResolveImageFirstLookupOnly(disk, roots, image_name) ==
    FindImageIn(disk, roots, CleanName(image_name))

\* the three lookups of process_single_image_with_target_dir
ResolveImageIn(disk, roots, image_name) ==
    WithLocal(CleanName(image_name), LAMBDA clean :
    WithLocal(FindImageIn(disk, roots, clean), LAMBDA a :
        IF a.found THEN a
        ELSE WithLocal(FindImageIn(disk, roots, Replace(clean, "-", " ")), LAMBDA b :
                 IF b.found THEN b
                 ELSE FindImageIn(disk, roots, Replace(clean, " ", "-")))))

\* the lookups on the asset files of the batch run
ResolveImage(image_name) == ResolveImageIn(AssetDisk, SearchRoots, image_name)

\* copy_image: the destination name has its spaces replaced by hyphens
SafeName(name) == Replace(name, " ", "-")

\* image_matches of process_obsidian_images: all ![[...]] first, then all
\* ![alt](target); each entry is (original, image_name, alt_text)
ImageMatches(content) ==
    WithLocal(SelectSeq(content, LAMBDA t : t.k = "embed"), LAMBDA embeds :
    WithLocal(SelectSeq(content, LAMBDA t : t.k = "md"), LAMBDA mds :
        [i \in 1..Len(embeds) |->
            [original |-> embeds[i], name |-> embeds[i].name, alt |-> embeds[i].name]]
        \o
        [i \in 1..Len(mds) |->
            [original |-> mds[i], name |-> mds[i].name, alt |-> mds[i].alt]]))

\* content.replace(original, new, 1)
ReplaceFirst(content, original, new) ==
    LET hits == {i \in DOMAIN content : content[i] = original}
    IN  IF hits = {} THEN content
        ELSE [content EXCEPT ![SetMin(hits)] = new]

\* the substitution loop of process_obsidian_images: match i is replaced by
\* processed_results[i]; a missing processed_results[i] is an IndexError
RECURSIVE SubstituteFrom(_, _, _, _)
SubstituteFrom(content, matches, res, i) ==
    IF i > Len(matches) THEN content
    ELSE WithLocal(ReplaceFirst(content, matches[i].original, res[i]),
                   LAMBDA replaced : SubstituteFrom(replaced, matches, res, i + 1))

\* content after process_obsidian_images as create_new_post sees it: on the
\* IndexError the except branch keeps the content it had
RewriteLinks(content, res) ==
    WithLocal(ImageMatches(content), LAMBDA image_matches :
        IF Len(res) < Len(image_matches) THEN content
        ELSE SubstituteFrom(content, image_matches, res, 1))

\* process_obsidian_wiki_links: [[target]] becomes [target]({{< ref "target" >}}),
\* also inside a ![[target]] that is still in the text
ProcessWikiLinks(content) ==
    [i \in DOMAIN content |->
        IF content[i].k = "embed"
        THEN RefImage(content[i].name, content[i].name)
        ELSE content[i]]

(***************************************************************************)
(* Tag-category learner                                                    *)
(***************************************************************************)
\* tag_category_pairs of update_tag_category_mapping: for every generated
\* post with a header, tags and categories, each tag with the categories seen
ScanPosts(idx) ==
    LET both == {d \in DOMAIN idx :
                    idx[d].fm /\ idx[d].tags # <<>> /\ idx[d].categories # <<>>}
        seen == UNION {Range(idx[d].tags) : d \in both}
    IN  [t \in seen |->
            UNION {Range(idx[d].categories) :
                      d \in {e \in both : t \in Range(idx[e].tags)}}]

\* a merge in which an existing entry always wins over what was observed
MergeChoicesKeepExisting(t, obs, ex) ==
    IF t \in DOMAIN ex THEN {ex[t]} ELSE obs[t]

\* the categories update_tag_category_mapping may give tag t: the only one
\* observed; with several observed the existing entry, or else list(set)[0],
\* which is whichever element the set yields first; an unobserved tag keeps
\* its existing entry
MergeChoices(t, obs, ex) ==
    IF t \in DOMAIN obs
    THEN IF Cardinality(obs[t]) = 1 THEN obs[t]
         ELSE IF t \in DOMAIN ex THEN {ex[t]}
         ELSE obs[t]
    ELSE {ex[t]}

\* a learner that drops the entries of the tags it did not observe
MergedMappingsObservedOnly(obs, ex) ==
    {m \in [DOMAIN obs -> UNION {obs[t] : t \in DOMAIN obs} \cup Range(ex)] :
        \A t \in DOMAIN obs : m[t] \in MergeChoices(t, obs, ex)}

\* a learner that writes the loaded mapping back and learns nothing
MergedMappingsExistingOnly(obs, ex) == {ex}

\* the mappings update_tag_category_mapping may write
MergedMappings(obs, ex) ==
    LET dom == DOMAIN obs \cup DOMAIN ex
        cats == UNION {MergeChoices(t, obs, ex) : t \in dom}
    IN  {m \in [dom -> cats] : \A t \in dom : m[t] \in MergeChoices(t, obs, ex)}

\* the orders list(set) may give
Orderings(S) ==
    {s \in [1..Cardinality(S) -> S] : Range(s) = S}

\* get_categories_from_tags: list(set of the mapped categories of the tags)
CategoriesFromTags(tags, tagMapping) ==
    IF tags = <<>> \/ DOMAIN tagMapping = {}
    THEN {<<>>}
    ELSE Orderings({tagMapping[t] : t \in Range(tags) \cap DOMAIN tagMapping})

(***************************************************************************)
(* State                                                                   *)
(***************************************************************************)
\* max_workers of the note pool and of each asset pool
NoteMaxWorkers == 4
AssetMaxWorkers == 4

VARIABLES
    notes,          \* source root: note id -> text of the file, or NoFile
    postDirs,       \* <hugo>/content/post: the slugs that are directories
    index,          \* slug -> the index.md in that directory
    copied,         \* <<slug, name>>: asset files copied next to a post
    mapping,        \* tag_category_mapping.yaml: tag -> category
    mapWriting,     \* update_tag_category_mapping has the file open for writing
    observed,       \* tag_category_pairs of the run's scan
    existing,       \* existing_mapping the run loaded
    batchPc,        \* process_markdown_files: idle, mapping, collect, pool, done, raised
    runs,           \* batch runs started
    notePc,         \* note id -> none, queued, assets, writing, done
    noteRet,        \* note id -> what process_single_file returned
    results,        \* results of the note pool, in completion order
    processed,      \* processed_files returned by the run
    assetPc,        \* note id -> per image match: queued, running, done
    assetRet,       \* note id -> per image match: the future's outcome
    assetResults,   \* note id -> results of its asset pool, in completion order
    assetLog,       \* note id -> the matches parallel_process logged as failed
    imageMatches,   \* note id -> image_matches of process_obsidian_images
    content,        \* note id -> content after process_obsidian_images
    generated,      \* notes whose post a batch run wrote and returned
    lastUnpub,      \* the note the unpublish handler handled last, 0 for none
    call,           \* the last call of an entry point made on its own, and its outcome
    meta,           \* the _data of a FrontMatter object a caller holds
    history,        \* the history file and the HistoryManager on it
    controls,       \* the flags of an OperationControls
    monitor         \* the ProgressState of a ProgressMonitor

vars == <<notes, postDirs, index, copied, mapping, mapWriting, observed, existing,
          batchPc, runs, notePc, noteRet, results, processed, assetPc, assetRet,
          assetResults, assetLog, imageMatches, content, generated, lastUnpub,
          call, meta, history, controls, monitor>>

fsVars == <<postDirs, index, copied>>
mapVars == <<mapping, mapWriting, observed, existing>>
assetVars == <<assetPc, assetRet, assetResults, assetLog, imageMatches>>
tuiVars == <<history, controls, monitor>>
apiVars == <<call, meta, tuiVars>>
batchVars == <<batchPc, runs, notePc, noteRet, results, processed, assetVars, content,
               generated, lastUnpub>>

\* no entry point has been called on its own, no FrontMatter object is held
NoCall == [op |-> "none"]
NoMeta == [x \in {} |-> x]

MaxRecords == 1

\* the lengths of file_selection_history, publish_history and error_logs
ListNames == {"file_selection_history", "publish_history", "error_logs"}

NoRecords == [name \in ListNames |-> 0]

\* no history file, no HistoryManager
NoManager ==
    [file |-> "absent", stored |-> NoRecords, mgr |-> "none", lock |-> FALSE,
     lists |-> NoRecords]

\* OperationControls.__init__
NewControls ==
    [can_pause |-> FALSE, can_resume |-> FALSE, can_cancel |-> FALSE,
     is_running |-> FALSE, is_paused |-> FALSE, is_cancelled |-> FALSE,
     is_completed |-> FALSE]

\* ProgressState()
NewProgressState == [total_tasks |-> 0, completed_tasks |-> 0, failed_tasks |-> 0]

\* no component of the terminal interface has been used
TuiIdle ==
    /\ history = NoManager
    /\ controls = NewControls
    /\ monitor = NewProgressState

\* a future that has not finished, one whose worker raised
Pending == [st |-> "pending"]
Raised == [st |-> "raised"]
Returned(v) == [st |-> "returned", v |-> v]

\* process_single_file's return value: the post file, or None
PostFile(slug) == [ok |-> TRUE, path |-> slug]
NoneResult == [ok |-> FALSE, path |-> <<>>]

\* an index.md that open(post_file, 'w') has truncated and nothing has filled
EmptyPost == [fm |-> FALSE, tags |-> <<>>, categories |-> <<>>, body |-> <<>>]

\* an empty dict, an empty directory listing
EmptyFcn == [x \in {} |-> x]

Exists(n) == notes[n] # NoFile
Parsed(n) == ExtractYamlAndContent(notes[n])

\* title = front_matter.title if front_matter.title else md_file.stem
TitleOf(n) ==
    WithLocal(Parsed(n).fm, LAMBDA front_matter :
        IF front_matter.title # <<>> THEN front_matter.title ELSE StemOf[n])

\* a post directory named after the file of the note
PostDirOfStem(n) == Slug(StemOf[n])

\* post_dir of create_new_post
PostDirOf(n) == WithLocal(TitleOf(n), LAMBDA title : Slug(title))

MatchesOf(n) == ImageMatches(Parsed(n).body)

Init ==
    /\ \E S \in SUBSET CatalogueIds :
          /\ Cardinality(S) <= MaxNotes
          /\ notes = [n \in CatalogueIds |-> IF n \in S THEN Catalogue[n] ELSE NoFile]
    /\ postDirs = {}
    /\ index = EmptyFcn
    /\ copied = {}
    /\ mapping = EmptyFcn
    /\ mapWriting = FALSE
    /\ observed = EmptyFcn
    /\ existing = EmptyFcn
    /\ batchPc = "idle"
    /\ runs = 0
    /\ notePc = [n \in CatalogueIds |-> "none"]
    /\ noteRet = [n \in CatalogueIds |-> Pending]
    /\ results = <<>>
    /\ processed = <<>>
    /\ assetPc = [n \in CatalogueIds |-> <<>>]
    /\ assetRet = [n \in CatalogueIds |-> <<>>]
    /\ assetResults = [n \in CatalogueIds |-> <<>>]
    /\ assetLog = [n \in CatalogueIds |-> {}]
    /\ imageMatches = [n \in CatalogueIds |-> <<>>]
    /\ content = [n \in CatalogueIds |-> <<>>]
    /\ generated = {}
    /\ lastUnpub = 0
    /\ call = NoCall
    /\ meta = NoMeta
    /\ TuiIdle

(***************************************************************************)
(* The batch run: process_markdown_files                                   *)
(***************************************************************************)
NoBatchRunning == batchPc \in {"idle", "done", "raised"}

\* a batch run that goes on to collect the notes while the mapping file is
\* still being rewritten
BatchBeginAsync ==
    /\ NoBatchRunning
    /\ runs < MaxRuns
    /\ runs' = runs + 1
    /\ batchPc' = "collect"
    /\ observed' = ScanPosts(index)
    /\ existing' = mapping
    /\ mapWriting' = TRUE
    /\ notePc' = [n \in CatalogueIds |-> "none"]
    /\ noteRet' = [n \in CatalogueIds |-> Pending]
    /\ results' = <<>>
    /\ processed' = <<>>
    /\ assetPc' = [n \in CatalogueIds |-> <<>>]
    /\ assetRet' = [n \in CatalogueIds |-> <<>>]
    /\ assetResults' = [n \in CatalogueIds |-> <<>>]
    /\ assetLog' = [n \in CatalogueIds |-> {}]
    /\ imageMatches' = [n \in CatalogueIds |-> <<>>]
    /\ content' = [n \in CatalogueIds |-> <<>>]
    /\ lastUnpub' = 0
    /\ UNCHANGED <<notes, fsVars, mapping, generated>>
    /\ UNCHANGED apiVars

\* process_markdown_files is entered: update_tag_category_mapping scans the
\* generated posts, loads the existing mapping and opens the mapping file
BatchBegin ==
    /\ NoBatchRunning
    /\ runs < MaxRuns
    /\ runs' = runs + 1
    /\ batchPc' = "mapping"
    /\ observed' = ScanPosts(index)
    /\ existing' = mapping
    /\ mapWriting' = TRUE
    /\ notePc' = [n \in CatalogueIds |-> "none"]
    /\ noteRet' = [n \in CatalogueIds |-> Pending]
    /\ results' = <<>>
    /\ processed' = <<>>
    /\ assetPc' = [n \in CatalogueIds |-> <<>>]
    /\ assetRet' = [n \in CatalogueIds |-> <<>>]
    /\ assetResults' = [n \in CatalogueIds |-> <<>>]
    /\ assetLog' = [n \in CatalogueIds |-> {}]
    /\ imageMatches' = [n \in CatalogueIds |-> <<>>]
    /\ content' = [n \in CatalogueIds |-> <<>>]
    /\ lastUnpub' = 0
    /\ UNCHANGED <<notes, fsVars, mapping, generated>>
    /\ UNCHANGED apiVars

\* update_tag_category_mapping merges and writes the mapping file, and returns
BatchMappingWritten ==
    /\ mapWriting
    /\ \E m \in MergedMappings(observed, existing) : mapping' = m
    /\ mapWriting' = FALSE
    /\ batchPc' = IF batchPc = "mapping" THEN "collect" ELSE batchPc
    /\ UNCHANGED <<notes, fsVars, observed, existing, runs, notePc, noteRet, results,
                   processed, assetVars, content, generated, lastUnpub>>
    /\ UNCHANGED apiVars

\* the loop over source_dir.rglob('*.md') and the submission of the note pool;
\* sel is selected_files (empty: no selection). A header that is no mapping
\* makes extract_yaml_and_content raise, and the run re-raises it.
BatchCollect ==
    /\ batchPc = "collect"
    /\ \E sel \in SUBSET {n \in CatalogueIds : Exists(n)} :
          LET considered == {n \in CatalogueIds : Exists(n) /\ (sel = {} \/ n \in sel)}
              toProcess == {n \in considered : Parsed(n).st = "ok" /\ Parsed(n).fm.publish}
          IN  IF \E n \in considered : Parsed(n).st = "raise"
              THEN /\ batchPc' = "raised"
                   /\ UNCHANGED notePc
              ELSE IF toProcess = {}
              THEN /\ batchPc' = "done"
                   /\ UNCHANGED notePc
              ELSE /\ batchPc' = "pool"
                   /\ notePc' = [n \in CatalogueIds |->
                                    IF n \in toProcess THEN "queued" ELSE "none"]
    /\ UNCHANGED <<notes, fsVars, mapVars, runs, noteRet, results, processed,
                   assetVars, content, generated, lastUnpub>>
    /\ UNCHANGED apiVars

\* the note pool's executor may run another task
NotePoolHasFreeWorker ==
    Cardinality({m \in CatalogueIds : notePc[m] \in {"assets", "writing"}}) < NoteMaxWorkers

\* the asset pool of note n may run another task
AssetPoolHasFreeWorker(n) ==
    Cardinality({j \in DOMAIN assetPc[n] : assetPc[n][j] = "running"}) < AssetMaxWorkers

\* parallel_process may return: every future has been yielded by as_completed
\* and the executor has shut down
AssetPoolDone(n) == \A j \in DOMAIN assetPc[n] : assetPc[n][j] = "done"

\* a pool that returns as soon as one of its futures has finished
FirstNoteDone == \E n \in CatalogueIds : notePc[n] = "done"

NotePoolDone == \A n \in CatalogueIds : notePc[n] \in {"none", "done"}

\* the front matter of the post: tags and categories of the note; without
\* categories, those the mapping gives its tags
PostHeaders(n, tagMapping) ==
    WithLocal(Parsed(n).fm, LAMBDA fm :
        IF fm.categories # <<>> \/ fm.tags = <<>>
        THEN {[fm |-> TRUE, tags |-> fm.tags, categories |-> fm.categories]}
        ELSE {[fm |-> TRUE, tags |-> fm.tags, categories |-> c] :
                 c \in CategoriesFromTags(fm.tags, tagMapping)})

\* open(post_file, 'w') truncates the file
Truncate(idx, d) == [e \in DOMAIN idx \cup {d} |-> IF e = d THEN EmptyPost ELSE idx[e]]

\* a worker of the note pool takes note n: create_new_post makes the post
\* directory and, with image matches, starts the asset pool; without any it
\* goes on to open index.md
StartNote(n) ==
    /\ batchPc = "pool"
    /\ notePc[n] = "queued"
    /\ NotePoolHasFreeWorker
    /\ \E post_dir \in {PostDirOf(n)}, image_matches \in {MatchesOf(n)} :
          /\ postDirs' = postDirs \cup {post_dir}
          /\ imageMatches' = [imageMatches EXCEPT ![n] = image_matches]
          /\ IF image_matches = <<>>
             THEN /\ notePc' = [notePc EXCEPT ![n] = "writing"]
                  /\ index' = Truncate(index, post_dir)
                  /\ UNCHANGED <<assetPc, assetRet>>
             ELSE /\ notePc' = [notePc EXCEPT ![n] = "assets"]
                  /\ assetPc' = [assetPc EXCEPT
                                    ![n] = [i \in DOMAIN image_matches |-> "queued"]]
                  /\ assetRet' = [assetRet EXCEPT
                                     ![n] = [i \in DOMAIN image_matches |-> Pending]]
                  /\ UNCHANGED index
    /\ \E body \in {Parsed(n).body} : content' = [content EXCEPT ![n] = body]
    /\ UNCHANGED <<notes, copied, mapVars, batchPc, runs, noteRet, results, processed,
                   assetResults, assetLog, generated, lastUnpub>>
    /\ UNCHANGED apiVars

\* a worker of note n's asset pool takes match i
StartAsset(n, i) ==
    /\ notePc[n] = "assets"
    /\ assetPc[n][i] = "queued"
    /\ AssetPoolHasFreeWorker(n)
    /\ assetPc' = [assetPc EXCEPT ![n][i] = "running"]
    /\ UNCHANGED <<notes, fsVars, mapVars, batchPc, runs, notePc, noteRet, results,
                   processed, assetRet, assetResults, assetLog, imageMatches, content,
                   generated, lastUnpub>>
    /\ UNCHANGED apiVars

\* a pool that drops a failed item without logging it
CollectUnlogged(res, log, i, outcome) ==
    IF outcome.st = "returned"
    THEN [res |-> Append(res, outcome.v), log |-> log]
    ELSE [res |-> res, log |-> log]

\* what parallel_process does with a finished future: a result is appended,
\* an exception is logged with the item
Collect(res, log, i, outcome) ==
    IF outcome.st = "returned"
    THEN [res |-> Append(res, outcome.v), log |-> log]
    ELSE [res |-> res, log |-> log \cup {i}]

\* shutil.copy2 of copy_image succeeds on this file
Copyable(img) == img.name \notin AssetDisk.unreadable

\* process_single_image_with_target_dir on one image match: the original text
\* when nothing is found, the new link when the file is found and copied; on
\* a file that cannot be read shutil.copy2 raises
ProcessSingleImage(m) ==
    WithLocal(ResolveImage(m.name), LAMBDA img :
        IF ~img.found THEN Returned(m.original)
        ELSE IF Copyable(img) THEN Returned(MdImage(m.alt, SafeName(img.name)))
        ELSE Raised)

\* the file copy_image writes for match m into post directory d, if any
CopyTarget(m, d) ==
    WithLocal(ResolveImage(m.name), LAMBDA img :
        IF img.found THEN {<<d, SafeName(img.name)>>} ELSE {})

\* the worker of match i of note n ends, and parallel_process takes its future
FinishAsset(n, i) ==
    /\ notePc[n] = "assets"
    /\ assetPc[n][i] = "running"
    /\ \E m \in {imageMatches[n][i]} :
       \E outcome \in {ProcessSingleImage(m)} :
       \E got \in {Collect(assetResults[n], assetLog[n], i, outcome)} :
       \E post_dir \in {PostDirOf(n)} :
          /\ assetRet' = [assetRet EXCEPT ![n][i] = outcome]
          /\ assetResults' = [assetResults EXCEPT ![n] = got.res]
          /\ assetLog' = [assetLog EXCEPT ![n] = got.log]
          /\ copied' = IF outcome.st = "returned"
                       THEN copied \cup CopyTarget(m, post_dir)
                       ELSE copied
    /\ assetPc' = [assetPc EXCEPT ![n][i] = "done"]
    /\ UNCHANGED <<notes, postDirs, index, mapVars, batchPc, runs, notePc, noteRet,
                   results, processed, imageMatches, content, generated, lastUnpub>>
    /\ UNCHANGED apiVars

\* note n's asset pool returns; process_obsidian_images substitutes the links,
\* and create_new_post goes on to open index.md
AssetsReturn(n) ==
    /\ notePc[n] = "assets"
    /\ AssetPoolDone(n)
    /\ \E new_content \in {RewriteLinks(content[n], assetResults[n])} :
          content' = [content EXCEPT ![n] = new_content]
    /\ notePc' = [notePc EXCEPT ![n] = "writing"]
    /\ \E post_dir \in {PostDirOf(n)} : index' = Truncate(index, post_dir)
    /\ UNCHANGED <<notes, postDirs, copied, mapVars, batchPc, runs, noteRet, results,
                   processed, assetVars, generated, lastUnpub>>
    /\ UNCHANGED apiVars

\* create_new_post for note n ends: index.md is written and its path returned
\* (writeOk), or the write raises and process_single_file returns None; the
\* locals of create_new_post and of process_obsidian_images are gone
FinishNote(n) ==
    /\ notePc[n] = "writing"
    /\ \E writeOk \in BOOLEAN :
          IF writeOk
          THEN /\ \E h \in PostHeaders(n, mapping) :
                     index' = [e \in DOMAIN index \cup {PostDirOf(n)} |->
                                  IF e = PostDirOf(n)
                                  THEN [fm |-> TRUE, tags |-> h.tags,
                                        categories |-> h.categories,
                                        body |-> <<Blank>> \o ProcessWikiLinks(content[n])]
                                  ELSE index[e]]
               /\ noteRet' = [noteRet EXCEPT ![n] = Returned(PostFile(PostDirOf(n)))]
               /\ results' = Collect(results, {}, n, Returned(PostFile(PostDirOf(n)))).res
               /\ generated' = generated \cup {n}
          ELSE /\ noteRet' = [noteRet EXCEPT ![n] = Returned(NoneResult)]
               /\ results' = Collect(results, {}, n, Returned(NoneResult)).res
               /\ UNCHANGED <<index, generated>>
    /\ notePc' = [notePc EXCEPT ![n] = "done"]
    /\ assetPc' = [assetPc EXCEPT ![n] = <<>>]
    /\ assetRet' = [assetRet EXCEPT ![n] = <<>>]
    /\ assetResults' = [assetResults EXCEPT ![n] = <<>>]
    /\ assetLog' = [assetLog EXCEPT ![n] = {}]
    /\ imageMatches' = [imageMatches EXCEPT ![n] = <<>>]
    /\ content' = [content EXCEPT ![n] = <<>>]
    /\ UNCHANGED <<notes, postDirs, copied, mapVars, batchPc, runs, processed, lastUnpub>>
    /\ UNCHANGED apiVars

\* the note pool returns and process_markdown_files returns processed_files
BatchReturn ==
    /\ batchPc = "pool"
    /\ NotePoolDone
    /\ processed' = SelectSeq(results, LAMBDA r : r.ok)
    /\ batchPc' = "done"
    /\ UNCHANGED <<notes, fsVars, mapVars, runs, notePc, noteRet, results, assetVars,
                   content, generated, lastUnpub>>
    /\ UNCHANGED apiVars

(***************************************************************************)
(* Publish state manager                                                   *)
(***************************************************************************)
\* set_publish_false rewriting every note that has a header
SetPublishFalseRewritesAlways(text) ==
    WithLocal(ExtractYamlAndContent(text), LAMBDA p :
        IF p.st # "ok" THEN text
        ELSE WriteWithHeader([p.fm EXCEPT !.publish = FALSE], p.body))

\* set_publish_false: the text of the note afterwards
SetPublishFalse(text) ==
    WithLocal(ExtractYamlAndContent(text), LAMBDA p :
        IF p.st # "ok" \/ ~p.fm.publish THEN text
        ELSE WriteWithHeader([p.fm EXCEPT !.publish = FALSE], p.body))

\* the directory _unpublish_articles asks unpublish_article to delete
UnpublishDirOf(n) == Slug(StemOf[n])

\* UnpublishHandler._unpublish_articles for one selected entry of
\* list_published_markdowns
Unpublish(n) ==
    /\ NoBatchRunning
    /\ Exists(n)
    /\ Parsed(n).st = "ok" /\ Parsed(n).fm.publish
    /\ notes' = [notes EXCEPT ![n] = SetPublishFalse(notes[n])]
    /\ postDirs' = postDirs \ {UnpublishDirOf(n)}
    /\ index' = [e \in DOMAIN index \ {UnpublishDirOf(n)} |-> index[e]]
    /\ copied' = {c \in copied : c[1] # UnpublishDirOf(n)}
    /\ lastUnpub' = n
    /\ UNCHANGED <<mapVars, batchPc, runs, notePc, noteRet, results, processed,
                   assetVars, content, generated>>
    /\ UNCHANGED apiVars

PoolStep ==
    \/ \E n \in CatalogueIds : StartNote(n)
    \/ \E n \in CatalogueIds : \E i \in DOMAIN assetPc[n] : StartAsset(n, i)
    \/ \E n \in CatalogueIds : \E i \in DOMAIN assetPc[n] : FinishAsset(n, i)
    \/ \E n \in CatalogueIds : AssetsReturn(n)
    \/ \E n \in CatalogueIds : FinishNote(n)
    \/ BatchReturn

Next ==
    \/ BatchBegin
    \/ BatchMappingWritten
    \/ BatchCollect
    \/ PoolStep
    \/ \E n \in CatalogueIds : Unpublish(n)

Spec == Init /\ [][Next]_vars

\* every task of a pool ends and the executors keep handing out queued tasks
FairSpec == Spec /\ WF_vars(PoolStep)

(***************************************************************************)
(* The learner on its own: update_tag_category_mapping over the generated  *)
(* posts, between changes of the posts and edits of the mapping file       *)
(***************************************************************************)
\* at most this many generated posts exist at a time
MaxPosts == 2

\* the index.md files that may lie under <hugo>/content/post, by directory
GeneratedPosts ==
    (<<"k">> :> [fm |-> TRUE, tags |-> <<"a">>, categories |-> <<"X", "Y">>,
                 body |-> <<Para>>])
    @@ (<<"l">> :> [fm |-> TRUE, tags |-> <<"a", "b">>, categories |-> <<"Y">>,
                    body |-> <<Para>>])
    @@ (<<"m">> :> [fm |-> TRUE, tags |-> <<"a">>, categories |-> <<"X">>,
                    body |-> <<Para>>])
    @@ (<<"n">> :> [fm |-> TRUE, tags |-> <<"c">>, categories |-> <<>>,
                    body |-> <<Para>>])

\* what tag_category_mapping.yaml may hold after it was edited by hand
EditedMappings == UNION {[S -> {"X", "Z"}] : S \in SUBSET {"a", "c"}}

\* no batch run has happened, no note file is involved
BatchIdle ==
    /\ batchPc = "idle"
    /\ runs = 0
    /\ notePc = [n \in CatalogueIds |-> "none"]
    /\ noteRet = [n \in CatalogueIds |-> Pending]
    /\ results = <<>>
    /\ processed = <<>>
    /\ assetPc = [n \in CatalogueIds |-> <<>>]
    /\ assetRet = [n \in CatalogueIds |-> <<>>]
    /\ assetResults = [n \in CatalogueIds |-> <<>>]
    /\ assetLog = [n \in CatalogueIds |-> {}]
    /\ imageMatches = [n \in CatalogueIds |-> <<>>]
    /\ content = [n \in CatalogueIds |-> <<>>]
    /\ generated = {}
    /\ lastUnpub = 0

LearnerInit ==
    /\ BatchIdle
    /\ notes = [n \in CatalogueIds |-> NoFile]
    /\ postDirs = {}
    /\ index = EmptyFcn
    /\ copied = {}
    /\ mapping = EmptyFcn
    /\ mapWriting = FALSE
    /\ observed = EmptyFcn
    /\ existing = EmptyFcn
    /\ call = NoCall
    /\ meta = NoMeta
    /\ TuiIdle

\* posts are generated or removed between two calls
PostsChange ==
    /\ \E S \in SUBSET DOMAIN GeneratedPosts :
          /\ Cardinality(S) <= MaxPosts
          /\ S # DOMAIN index
          /\ index' = [d \in S |-> GeneratedPosts[d]]
          /\ postDirs' = S
    /\ observed' = EmptyFcn
    /\ existing' = EmptyFcn
    /\ call' = NoCall
    /\ UNCHANGED <<notes, copied, mapping, mapWriting, batchVars, tuiVars, meta>>

\* the mapping file is edited by hand between two calls
MappingEdited ==
    /\ \E m \in EditedMappings : m # mapping /\ mapping' = m
    /\ observed' = EmptyFcn
    /\ existing' = EmptyFcn
    /\ call' = NoCall
    /\ UNCHANGED <<notes, fsVars, mapWriting, batchVars, tuiVars, meta>>

\* the tags the merge warns about, each with the categories the warning names
MergeWarnings(obs, ex) ==
    [t \in {u \in DOMAIN obs : Cardinality(obs[u]) > 1 /\ u \notin DOMAIN ex} |-> obs[t]]

\* update_tag_category_mapping(hugo_dir), from the scan to the written file;
\* order is the order in which rglob yields the posts
UpdateTagCategoryMapping ==
    /\ \E order \in Orderings(DOMAIN index) :
       \E obs \in {ScanPosts(index)} :
       \E m \in MergedMappings(obs, mapping) :
          /\ observed' = obs
          /\ existing' = mapping
          /\ mapping' = m
          /\ call' = [op |-> "update_tag_category_mapping", order |-> order,
                      warned |-> MergeWarnings(obs, mapping)]
    /\ UNCHANGED <<notes, fsVars, mapWriting, batchVars, tuiVars, meta>>

LearnerNext ==
    \/ PostsChange
    \/ MappingEdited
    \/ UpdateTagCategoryMapping

LearnerSpec == LearnerInit /\ [][LearnerNext]_vars

(***************************************************************************)
(* The Publish State Manager on its own: list_published_markdowns,         *)
(* set_publish_false and unpublish_article called by the handlers          *)
(***************************************************************************)
\* the article names the handlers may pass to unpublish_article
ArticleNames == {<<"A", " ", "b">>, <<"y">>, <<"B">>}

\* a generated post left by an earlier run
OldPost == [fm |-> TRUE, tags |-> <<>>, categories |-> <<>>, body |-> <<Para>>]

PublishInit ==
    /\ BatchIdle
    /\ \E S \in SUBSET CatalogueIds :
          /\ Cardinality(S) <= MaxNotes
          /\ notes = [n \in CatalogueIds |-> IF n \in S THEN Catalogue[n] ELSE NoFile]
    /\ \E D \in SUBSET {Slug(a) : a \in ArticleNames} :
          /\ postDirs = D
          /\ index = [d \in D |-> OldPost]
    /\ copied = {}
    /\ mapping = EmptyFcn
    /\ mapWriting = FALSE
    /\ observed = EmptyFcn
    /\ existing = EmptyFcn
    /\ call = NoCall
    /\ meta = NoMeta
    /\ TuiIdle

\* list_published_markdowns: the notes it returns, and those it warns about
\* (extract_yaml_and_content raised on them)
ListPublished(files) ==
    [published |-> {n \in CatalogueIds :
                       /\ files[n] # NoFile
                       /\ ExtractYamlAndContent(files[n]).st = "ok"
                       /\ ExtractYamlAndContent(files[n]).fm.publish},
     warned |-> {n \in CatalogueIds :
                    /\ files[n] # NoFile
                    /\ ExtractYamlAndContent(files[n]).st = "raise"}]

\* the last-modification times files may have
Mtimes == {1, 2}

\* list_published_markdowns: the list holds the publishable notes in the
\* order rglob meets them, which is the order of the directory entries and
\* does not depend on the modification times of the files
ListPublishedMarkdowns ==
    /\ \E r \in {ListPublished(notes)} :
       \E order \in Orderings(r.published), mtime \in [r.published -> Mtimes] :
          call' = [op |-> "list_published_markdowns", raised |-> FALSE,
                   published |-> r.published, warned |-> r.warned,
                   order |-> order, mtime |-> mtime]
    /\ UNCHANGED <<notes, fsVars, mapVars, batchVars, tuiVars, meta>>

\* the value set_publish_false returns: True when it rewrote the file; an
\* exception of extract_yaml_and_content is caught and gives False
SetPublishFalseReturns(text) ==
    WithLocal(ExtractYamlAndContent(text), LAMBDA p : p.st = "ok" /\ p.fm.publish)

\* set_publish_false(md_file) on note n
SetPublishFalseCalled(n) ==
    /\ Exists(n)
    /\ \E after \in {SetPublishFalse(notes[n])}, ret \in {SetPublishFalseReturns(notes[n])} :
          /\ notes' = [notes EXCEPT ![n] = after]
          /\ call' = [op |-> "set_publish_false", n |-> n, ret |-> ret,
                      before |-> notes[n]]
    /\ UNCHANGED <<fsVars, mapVars, batchVars, tuiVars, meta>>

\* unpublish_article reporting the directory without deleting it
UnpublishArticleKeepsDir(article_name) ==
    /\ \E post_dir \in {Slug(article_name)} :
          /\ UNCHANGED fsVars
          /\ call' = [op |-> "unpublish_article", dir |-> post_dir,
                      ret |-> post_dir \in postDirs,
                      again |-> call.op = "unpublish_article" /\ call.dir = post_dir]
    /\ UNCHANGED <<notes, mapVars, batchVars, tuiVars, meta>>

\* unpublish_article(article_name); again: the call before this one was
\* unpublish_article for the same directory
UnpublishArticleCalled(article_name) ==
    /\ \E post_dir \in {Slug(article_name)} :
          /\ postDirs' = postDirs \ {post_dir}
          /\ index' = [e \in DOMAIN index \ {post_dir} |-> index[e]]
          /\ copied' = {c \in copied : c[1] # post_dir}
          /\ call' = [op |-> "unpublish_article", dir |-> post_dir,
                      ret |-> post_dir \in postDirs,
                      again |-> call.op = "unpublish_article" /\ call.dir = post_dir]
    /\ UNCHANGED <<notes, mapVars, batchVars, tuiVars, meta>>

PublishNext ==
    \/ ListPublishedMarkdowns
    \/ \E n \in CatalogueIds : SetPublishFalseCalled(n)
    \/ \E a \in ArticleNames : UnpublishArticleCalled(a)

PublishSpec == PublishInit /\ [][PublishNext]_vars

(***************************************************************************)
(* The Metadata object on its own: FrontMatter(yaml_data), update(data),   *)
(* and a header written by yaml.dump and read back                         *)
(***************************************************************************)

\* the keys and the values a caller passes in a dict
MetaKeys == {"title", "tags", "categories"}

RawValues == {AsList(<<>>), AsList(<<"a">>), AsStr("a"), AsNull, AsInt}

RawDicts == UNION {[K -> RawValues] : K \in SUBSET MetaKeys}

\* the normalised FrontMatter objects whose header is written and read back
Titles == {<<>>, <<"b">>, <<"b", "-", "-", "-">>}

Metadatas ==
    {FrontMatter(d) : d \in [title : Titles, publish : BOOLEAN,
                             tags : {AsList(<<>>), AsList(<<"a">>), AsStr("a"), AsNull},
                             categories : {AsList(<<>>), AsStr("X")}]}

MetaInit ==
    /\ BatchIdle
    /\ notes = [n \in CatalogueIds |-> NoFile]
    /\ postDirs = {}
    /\ index = EmptyFcn
    /\ copied = {}
    /\ mapping = EmptyFcn
    /\ mapWriting = FALSE
    /\ observed = EmptyFcn
    /\ existing = EmptyFcn
    /\ call = NoCall
    /\ meta = NoMeta
    /\ TuiIdle

\* FrontMatter(yaml_data): self._data = yaml_data or {}, then _normalize_fields
FrontMatterNew(yaml_data) ==
    /\ meta' = NormalizeFields(yaml_data)
    /\ call' = [op |-> "FrontMatter", data |-> yaml_data]
    /\ UNCHANGED <<notes, fsVars, mapVars, batchVars, tuiVars>>

\* update(data) on a constructed object: self._data.update(data), then
\* _normalize_fields
FrontMatterUpdate(data) ==
    /\ call.op \in {"FrontMatter", "update"}
    /\ meta' = NormalizeFields([key \in DOMAIN data \cup DOMAIN meta |->
                                   IF key \in DOMAIN data THEN data[key] ELSE meta[key]])
    /\ call' = [op |-> "update", data |-> data]
    /\ UNCHANGED <<notes, fsVars, mapVars, batchVars, tuiVars>>

\* the header of m is written as create_new_post writes it and the text is
\* read back with extract_yaml_and_content
HeaderReadBack(m) ==
    /\ call' = [op |-> "extract_yaml_and_content", m |-> m,
                parsed |-> ExtractYamlAndContent(WriteWithHeader(m, <<Para>>))]
    /\ UNCHANGED <<notes, fsVars, mapVars, batchVars, tuiVars, meta>>

MetaNext ==
    \/ \E yaml_data \in RawDicts : FrontMatterNew(yaml_data)
    \/ \E data \in RawDicts : FrontMatterUpdate(data)
    \/ \E m \in Metadatas : HeaderReadBack(m)

MetaSpec == MetaInit /\ [][MetaNext]_vars

(***************************************************************************)
(* The asset resolver on its own: process_single_image_with_target_dir     *)
(* looking a reference up on a disk                                        *)
(***************************************************************************)
MaxFilesPerRoot == 1

\* file names that differ in spaces and hyphens only
AssetNames ==
    {<<"p", " ", "q">>, <<"p", "-", "q">>,
     <<"p", " ", "q", "-", "r">>, <<"p", "-", "q", "-", "r">>,
     <<"p", " ", "q", " ", "r">>}

\* the names notes refer to
References ==
    {<<"p", " ", "q">>, <<"p", "-", "q">>, <<"p", " ", "q", "-", "r">>}

\* the configured image directory, the directory of the note and an extra
\* source directory, each with some files
Disks ==
    [images : {F \in SUBSET AssetNames : Cardinality(F) <= MaxFilesPerRoot},
     notes : {F \in SUBSET AssetNames : Cardinality(F) <= MaxFilesPerRoot},
     extra : {F \in SUBSET AssetNames : Cardinality(F) <= MaxFilesPerRoot}]

\* source_dir is optional
RootLists == {<<"images", "notes">>, <<"images", "notes", "extra">>}

ResolverInit ==
    /\ BatchIdle
    /\ notes = [n \in CatalogueIds |-> NoFile]
    /\ postDirs = {}
    /\ index = EmptyFcn
    /\ copied = {}
    /\ mapping = EmptyFcn
    /\ mapWriting = FALSE
    /\ observed = EmptyFcn
    /\ existing = EmptyFcn
    /\ \E disk \in Disks : call = [op |-> "none", disk |-> disk]
    /\ meta = NoMeta
    /\ TuiIdle

\* the lookups of process_single_image_with_target_dir for image_name, on
\* the disk the run started with
ResolveCalled(roots, image_name) ==
    /\ call' = [op |-> "find_image", disk |-> call.disk, roots |-> roots,
                name |-> image_name,
                ret |-> ResolveImageIn(call.disk, roots, image_name)]
    /\ UNCHANGED <<notes, fsVars, mapVars, batchVars, tuiVars, meta>>

ResolverNext ==
    \E roots \in RootLists, image_name \in References :
        ResolveCalled(roots, image_name)

ResolverSpec == ResolverInit /\ [][ResolverNext]_vars

(***************************************************************************)
(* The text stages on their own: process_mermaid_blocks on the lines of a  *)
(* body, process_latex_formulas on the formula of one $$...$$ block        *)
(***************************************************************************)
MaxLines == 4

\* the lines of a body: ```mermaid, ```, a line of text, an empty line
LineKinds == {"open", "fence", "text", "blank"}

Texts == UNION {[1..len -> LineKinds] : len \in 0..MaxLines}

\* a line that starts with ```
FenceLine(line) == line \in {"open", "fence"}

\* lines without the empty lines at their end
RECURSIVE StripBlankRight(_)
StripBlankRight(lines) ==
    IF lines # <<>> /\ lines[Len(lines)] = "blank"
    THEN StripBlankRight(SubSeq(lines, 1, Len(lines) - 1))
    ELSE lines

NoMatch == [found |-> FALSE, j |-> 0, content |-> <<>>]

\* the match of ```mermaid\s*\n(.*?)\s*\n\s*``` that starts on line i: the
\* first \s* takes the empty lines after line i, the group starts on the next
\* line k and ends before the first later line j that starts with ```; failing
\* that, the empty lines are the group's and line k closes the block
MermaidMatch(lines, i) ==
    WithLocal({x \in (i + 1)..Len(lines) : lines[x] # "blank"}, LAMBDA after :
        IF after = {} THEN NoMatch
        ELSE WithLocal(SetMin(after), LAMBDA k :
             WithLocal({j \in (k + 1)..Len(lines) : FenceLine(lines[j])}, LAMBDA closing :
                 IF closing # {}
                 THEN [found |-> TRUE, j |-> SetMin(closing),
                       content |-> StripBlankRight(SubSeq(lines, k, SetMin(closing) - 1))]
                 ELSE IF k > i + 1 /\ FenceLine(lines[k])
                 THEN [found |-> TRUE, j |-> k, content |-> <<"blank">>]
                 ELSE NoMatch)))

\* re.sub from line i on: each match becomes {{< mermaid >}}, the group,
\* {{< /mermaid >}} followed by what the closing line holds after its ```
RECURSIVE MermaidFrom(_, _)
MermaidFrom(lines, i) ==
    IF i > Len(lines) THEN <<>>
    ELSE IF lines[i] # "open" THEN <<lines[i]>> \o MermaidFrom(lines, i + 1)
    ELSE WithLocal(MermaidMatch(lines, i), LAMBDA m :
             IF m.found
             THEN <<"sopen">> \o m.content
                      \o <<IF lines[m.j] = "open" THEN "sclosetail" ELSE "sclose">>
                      \o MermaidFrom(lines, m.j + 1)
             ELSE <<"open">> \o MermaidFrom(lines, i + 1))

\* process_mermaid_blocks
ProcessMermaidBlocks(lines) == MermaidFrom(lines, 1)

\* str.strip() on a line
RECURSIVE StripLeft(_)
StripLeft(s) ==
    IF s # <<>> /\ s[1] = " " THEN StripLeft(SubSeq(s, 2, Len(s))) ELSE s

Strip(s) == StripLeft(StripRight(s))

\* _clean_markdown_issues on a formula of one line: the line is stripped and
\* a list marker at its start, not followed by + or =, is removed
CleanMarkdownIssues(formula) ==
    WithLocal(Strip(formula), LAMBDA line :
        IF Len(line) >= 2 /\ line[1] \in {"+", "-", "*"} /\ line[2] \notin {"+", "="}
        THEN StripLeft(SubSeq(line, 2, Len(line)))
        ELSE line)

AlignedLength == 80

\* _needs_aligned
NeedsAligned(formula) ==
    Contains(formula, "=") /\ (Len(formula) > AlignedLength \/ Contains(formula, "+"))

\* _clean_simple: $$content$$ on one line
CleanSimple(formula) == [form |-> "single", lines |-> <<formula>>]

\* _fix_aligned_format on a formula of one line
FixAlignedFormat(formula) ==
    [form |-> "single",
     lines |-> <<IF formula[1] = "+" THEN <<"&">> \o formula ELSE formula>>]

ShortRightPart == 60

\* the lines of an aligned block between \begin{aligned} and \end{aligned}
Aligned(lines) == [form |-> "aligned", lines |-> lines]

\* _create_aligned: left &= right on one line, or a long right part split at
\* its middle +
CreateAligned(formula) ==
    WithLocal(CleanMarkdownIssues(formula), LAMBDA cleaned :
        IF ~Contains(cleaned, "=") THEN CleanSimple(cleaned)
        ELSE WithLocal(SetMin({i \in DOMAIN cleaned : cleaned[i] = "="}), LAMBDA eq_pos :
             WithLocal(Strip(SubSeq(cleaned, 1, eq_pos - 1)), LAMBDA left_part :
             WithLocal(Strip(SubSeq(cleaned, eq_pos + 1, Len(cleaned))), LAMBDA right_part :
             WithLocal({i \in DOMAIN right_part : right_part[i] = "+"}, LAMBDA plus_positions :
                 IF Len(right_part) < ShortRightPart \/ Cardinality(plus_positions) < 2
                 THEN Aligned(<<left_part \o <<" ", "&", "=", " ">> \o right_part>>)
                 ELSE WithLocal(CHOOSE i \in plus_positions :
                                   Cardinality({x \in plus_positions : x < i})
                                       = Cardinality(plus_positions) \div 2,
                                LAMBDA split_pos :
                          Aligned(<<left_part \o <<" ", "&", "=", " ">>
                                        \o Strip(SubSeq(right_part, 1, split_pos - 1))
                                        \o <<" ", "\\\\">>,
                                    <<"&", "\\quad", " ">>
                                        \o Strip(SubSeq(right_part, split_pos,
                                                        Len(right_part)))>>)))))))

\* process_formula of process_latex_formulas, on what is between $$ and $$
ProcessFormula(formula) ==
    WithLocal(CleanMarkdownIssues(Strip(formula)), LAMBDA cleaned_content :
        IF Contains(cleaned_content, "\\begin{aligned}")
        THEN FixAlignedFormat(cleaned_content)
        ELSE IF NeedsAligned(cleaned_content) THEN CreateAligned(cleaned_content)
        ELSE CleanSimple(cleaned_content))

\* a + b + c + d = e
SumFormula ==
    <<"a", " ", "+", " ", "b", " ", "+", " ", "c", " ", "+", " ", "d", " ", "=", " ", "e">>

\* formulas with and without = and +, with a list marker, already aligned,
\* longer than AlignedLength, and with a right part of ShortRightPart or more
Formulas ==
    {SumFormula,
     <<"a", " ", "=", " ", "e">>,
     <<"a", " ", "+", " ", "b">>,
     <<"+", " ", "a", " ", "=", " ", "b">>,
     <<"\\begin{aligned}", "a", "=", "b", "\\end{aligned}">>,
     <<"a", "=">> \o [i \in 1..AlignedLength |-> "b"],
     <<"a", "=">> \o [i \in 1..ShortRightPart |->
                         IF i \in {10, 20, 30} THEN "+" ELSE "b"]}

TextInit ==
    /\ BatchIdle
    /\ notes = [n \in CatalogueIds |-> NoFile]
    /\ postDirs = {}
    /\ index = EmptyFcn
    /\ copied = {}
    /\ mapping = EmptyFcn
    /\ mapWriting = FALSE
    /\ observed = EmptyFcn
    /\ existing = EmptyFcn
    /\ \E text \in Texts : call = [op |-> "none", text |-> text]
    /\ meta = NoMeta
    /\ TuiIdle

\* process_mermaid_blocks is applied to the text
ProcessMermaidCalled ==
    /\ call' = [op |-> "process_mermaid_blocks",
                text |-> ProcessMermaidBlocks(call.text), before |-> call.text]
    /\ UNCHANGED <<notes, fsVars, mapVars, batchVars, tuiVars, meta>>

\* process_latex_formulas meets $$formula$$
ProcessLatexCalled(formula) ==
    /\ call' = [op |-> "process_latex_formulas", text |-> call.text,
                formula |-> formula, ret |-> ProcessFormula(formula)]
    /\ UNCHANGED <<notes, fsVars, mapVars, batchVars, tuiVars, meta>>

TextNext ==
    \/ ProcessMermaidCalled
    \/ \E formula \in Formulas : ProcessLatexCalled(formula)

TextSpec == TextInit /\ [][TextNext]_vars

(***************************************************************************)
(* The HistoryManager on its own: one thread constructs it, loads, records *)
(* and saves, while the history file may be written from outside           *)
(***************************************************************************)

\* what the history file holds: nothing (no file), text that is no JSON, JSON
\* that is no object, or the object save_history writes
FileKinds == {"absent", "invalid", "notdict", "valid"}

RecordCounts == [ListNames -> 0..MaxRecords]

\* _create_empty_history with self._lock free: the lists are emptied and
\* save_history writes them
CreateEmptyHistory(h) ==
    [h EXCEPT !.lists = NoRecords, !.file = "valid", !.stored = NoRecords,
              !.mgr = "ready"]

\* load_history. On text that is no JSON, _create_empty_history is called
\* inside "with self._lock": it empties the lists and calls save_history,
\* which waits for self._lock, a threading.Lock this thread holds. JSON that
\* is no object raises out of "with self._lock" into the outer handler.
LoadHistory(h) ==
    IF h.file = "absent" THEN CreateEmptyHistory(h)
    ELSE IF h.file = "invalid"
    THEN [h EXCEPT !.lists = NoRecords, !.lock = TRUE, !.mgr = "blocked"]
    ELSE IF h.file = "notdict" THEN CreateEmptyHistory(h)
    ELSE [h EXCEPT !.lists = h.stored, !.mgr = "ready"]

HistoryInit ==
    /\ BatchIdle
    /\ notes = [n \in CatalogueIds |-> NoFile]
    /\ postDirs = {}
    /\ index = EmptyFcn
    /\ copied = {}
    /\ mapping = EmptyFcn
    /\ mapWriting = FALSE
    /\ observed = EmptyFcn
    /\ existing = EmptyFcn
    /\ call = NoCall
    /\ meta = NoMeta
    /\ TuiIdle

\* the history file is written by something else than the manager
HistoryFileWritten(kind, stored) ==
    /\ history.mgr # "blocked"
    /\ kind = "valid" \/ stored = NoRecords
    /\ history' = [history EXCEPT !.file = kind, !.stored = stored]
    /\ call' = [op |-> "file_written", file |-> kind]
    /\ UNCHANGED <<notes, fsVars, mapVars, batchVars, meta, controls, monitor>>

\* HistoryManager(history_file): the lists start empty, then load_history
HistoryManagerNew ==
    /\ history.mgr = "none"
    /\ history' = LoadHistory([history EXCEPT !.lists = NoRecords, !.lock = FALSE])
    /\ call' = [op |-> "HistoryManager", file |-> history.file]
    /\ UNCHANGED <<notes, fsVars, mapVars, batchVars, meta, controls, monitor>>

\* load_history() on the manager
LoadHistoryCalled ==
    /\ history.mgr = "ready"
    /\ history' = LoadHistory(history)
    /\ call' = [op |-> "load_history", file |-> history.file]
    /\ UNCHANGED <<notes, fsVars, mapVars, batchVars, meta, controls, monitor>>

\* record_file_selection, record_publish_operation or record_error_log
RecordCalled(name) ==
    /\ history.mgr = "ready"
    /\ history.lists[name] < MaxRecords
    /\ history' = [history EXCEPT !.lists[name] = @ + 1]
    /\ call' = [op |-> "record", file |-> history.file]
    /\ UNCHANGED <<notes, fsVars, mapVars, batchVars, meta, controls, monitor>>

\* save_history() on the manager
SaveHistoryCalled ==
    /\ history.mgr = "ready"
    /\ history' = [history EXCEPT !.file = "valid", !.stored = history.lists]
    /\ call' = [op |-> "save_history", file |-> history.file]
    /\ UNCHANGED <<notes, fsVars, mapVars, batchVars, meta, controls, monitor>>

HistoryNext ==
    \/ \E kind \in FileKinds, stored \in RecordCounts : HistoryFileWritten(kind, stored)
    \/ HistoryManagerNew
    \/ LoadHistoryCalled
    \/ \E name \in ListNames : RecordCalled(name)
    \/ SaveHistoryCalled

HistorySpec == HistoryInit /\ [][HistoryNext]_vars

(***************************************************************************)
(* The progress components on their own: the methods of an                 *)
(* OperationControls and of a ProgressMonitor, called in any order         *)
(***************************************************************************)
MaxTasks == 2

ProgressInit ==
    /\ BatchIdle
    /\ notes = [n \in CatalogueIds |-> NoFile]
    /\ postDirs = {}
    /\ index = EmptyFcn
    /\ copied = {}
    /\ mapping = EmptyFcn
    /\ mapWriting = FALSE
    /\ observed = EmptyFcn
    /\ existing = EmptyFcn
    /\ call = NoCall
    /\ meta = NoMeta
    /\ TuiIdle

\* start_operation
StartOperation ==
    /\ controls' = [can_pause |-> TRUE, can_resume |-> FALSE, can_cancel |-> TRUE,
                    is_running |-> TRUE, is_paused |-> FALSE,
                    is_cancelled |-> FALSE, is_completed |-> FALSE]
    /\ UNCHANGED <<notes, fsVars, mapVars, batchVars, call, meta, history, monitor>>

\* pause_operation
PauseOperation ==
    /\ controls' = [controls EXCEPT !.is_running = FALSE, !.is_paused = TRUE,
                                    !.can_pause = FALSE, !.can_resume = TRUE,
                                    !.can_cancel = TRUE]
    /\ UNCHANGED <<notes, fsVars, mapVars, batchVars, call, meta, history, monitor>>

\* resume_operation
ResumeOperation ==
    /\ controls' = [controls EXCEPT !.is_running = TRUE, !.is_paused = FALSE,
                                    !.can_pause = TRUE, !.can_resume = FALSE,
                                    !.can_cancel = TRUE]
    /\ UNCHANGED <<notes, fsVars, mapVars, batchVars, call, meta, history, monitor>>

\* cancel_operation
CancelOperation ==
    /\ controls' = [controls EXCEPT !.is_running = FALSE, !.is_paused = FALSE,
                                    !.is_cancelled = TRUE, !.can_pause = FALSE,
                                    !.can_resume = FALSE, !.can_cancel = FALSE]
    /\ UNCHANGED <<notes, fsVars, mapVars, batchVars, call, meta, history, monitor>>

\* complete_operation
CompleteOperation ==
    /\ controls' = [controls EXCEPT !.is_running = FALSE, !.is_paused = FALSE,
                                    !.is_completed = TRUE, !.can_pause = FALSE,
                                    !.can_resume = FALSE, !.can_cancel = FALSE]
    /\ UNCHANGED <<notes, fsVars, mapVars, batchVars, call, meta, history, monitor>>

\* completed_tasks + failed_tasks
Processed(state) == state.completed_tasks + state.failed_tasks

\* ProgressMonitor(total_tasks)
ProgressMonitorNew(total) ==
    /\ monitor' = [NewProgressState EXCEPT !.total_tasks = total]
    /\ UNCHANGED <<notes, fsVars, mapVars, batchVars, call, meta, history, controls>>

\* set_total_tasks(total)
SetTotalTasks(total) ==
    /\ monitor' = [monitor EXCEPT !.total_tasks = total]
    /\ UNCHANGED <<notes, fsVars, mapVars, batchVars, call, meta, history, controls>>

\* complete_task: counts only while tasks are left
CompleteTask ==
    /\ monitor' = IF Processed(monitor) < monitor.total_tasks
                  THEN [monitor EXCEPT !.completed_tasks = @ + 1]
                  ELSE monitor
    /\ UNCHANGED <<notes, fsVars, mapVars, batchVars, call, meta, history, controls>>

\* fail_task: counts only while tasks are left
FailTask ==
    /\ monitor' = IF Processed(monitor) < monitor.total_tasks
                  THEN [monitor EXCEPT !.failed_tasks = @ + 1]
                  ELSE monitor
    /\ UNCHANGED <<notes, fsVars, mapVars, batchVars, call, meta, history, controls>>

\* reset
ResetMonitor ==
    /\ monitor' = NewProgressState
    /\ UNCHANGED <<notes, fsVars, mapVars, batchVars, call, meta, history, controls>>

\* get_progress_percentage, rounded down
GetProgressPercentage(state) ==
    IF state.total_tasks = 0 THEN 0
    ELSE (Processed(state) * 100) \div state.total_tasks

\* is_completed
IsCompleted(state) ==
    Processed(state) >= state.total_tasks /\ state.total_tasks > 0

ProgressNext ==
    \/ StartOperation
    \/ PauseOperation
    \/ ResumeOperation
    \/ CancelOperation
    \/ CompleteOperation
    \/ \E total \in 0..MaxTasks : ProgressMonitorNew(total)
    \/ \E total \in 0..MaxTasks : SetTotalTasks(total)
    \/ CompleteTask
    \/ FailTask
    \/ ResetMonitor

ProgressSpec == ProgressInit /\ [][ProgressNext]_vars

(***************************************************************************)
(* Properties                                                              *)
(***************************************************************************)
Count(seq, v) == Cardinality({k \in DOMAIN seq : seq[k] = v})

\* the futures of a pool that returned a value, and those that raised
ReturnedItems(rets) == {i \in DOMAIN rets : rets[i].st = "returned"}
RaisedItems(rets) == {i \in DOMAIN rets : rets[i].st = "raised"}

\* a result list holds exactly the values the finished futures returned
HoldsExactlyReturned(res, rets) ==
    /\ Len(res) = Cardinality(ReturnedItems(rets))
    /\ \A i \in ReturnedItems(rets) :
          Count(res, rets[i].v) =
              Cardinality({j \in ReturnedItems(rets) : rets[j].v = rets[i].v})

\* note n's asset pool has returned to process_obsidian_images
AssetPoolReturned(n) == notePc[n] = "writing" /\ MatchesOf(n) # <<>>

\* C1: parallel_process returns exactly the results of the items whose worker
\* returned normally; an item whose worker raises is logged with its identity
\* and left out, its siblings are still run to completion with their own
\* outcome, and the caller goes on (the exception does not propagate).
C1_FailureIsolated ==
    /\ HoldsExactlyReturned(results, noteRet)
    /\ \A n \in CatalogueIds :
          /\ HoldsExactlyReturned(assetResults[n], assetRet[n])
          /\ assetLog[n] = RaisedItems(assetRet[n])
          /\ AssetPoolReturned(n) =>
                \A i \in DOMAIN MatchesOf(n) :
                    /\ assetPc[n][i] = "done"
                    /\ assetRet[n][i] = ProcessSingleImage(MatchesOf(n)[i])
          /\ (notePc[n] = "done" /\ batchPc = "pool") => noteRet[n].st = "returned"

\* an asset pool has returned with one item raised and logged and its sibling's
\* result in the list
C1_Witness ==
    \E n \in CatalogueIds :
        /\ AssetPoolReturned(n)
        /\ RaisedItems(assetRet[n]) # {}
        /\ assetLog[n] # {}
        /\ Len(assetResults[n]) = 1

\* the place in the body of the occurrence image match i was taken from
OccurrenceOf(body, i) ==
    LET embeds == {k \in DOMAIN body : body[k].k = "embed"}
        mds == {k \in DOMAIN body : body[k].k = "md"}
        nth(S, j) == CHOOSE k \in S : Cardinality({l \in S : l < k}) = j - 1
    IN  IF i <= Cardinality(embeds) THEN nth(embeds, i)
        ELSE nth(mds, i - Cardinality(embeds))

\* C2: no caller depends on the position of a result in the list that
\* parallel_process returns: under every completion order, and with failed
\* asset workers, process_obsidian_images puts at each asset-link occurrence
\* the link computed for that occurrence (the original text for an item that
\* failed), never the result of another reference.
C2_EachOccurrenceGetsItsOwnLink ==
    \A n \in CatalogueIds :
        AssetPoolReturned(n) =>
            \A i \in DOMAIN MatchesOf(n) :
                content[n][OccurrenceOf(Parsed(n).body, i)] =
                    IF assetRet[n][i].st = "returned" THEN assetRet[n][i].v
                    ELSE MatchesOf(n)[i].original

\* a worker of the note pool is in create_new_post for note n
NoteWorking(n) == notePc[n] \in {"assets", "writing"}

\* the asset workers that are running, as <<note, match>>
RunningAssets ==
    {t \in UNION {{<<n, i>> : i \in DOMAIN assetPc[n]} : n \in CatalogueIds} :
        assetPc[t[1]][t[2]] = "running"}

\* C3: no mutable state is shared between concurrently running workers: no
\* two workers are ever at work on the same post directory (and so on the
\* same index.md), and no two asset workers copy to the same file.
C3_NoSharedWrites ==
    /\ \A n, m \in CatalogueIds :
          (n # m /\ NoteWorking(n) /\ NoteWorking(m)) => PostDirOf(n) # PostDirOf(m)
    /\ \A t, u \in RunningAssets :
          t # u =>
              CopyTarget(MatchesOf(t[1])[t[2]], PostDirOf(t[1]))
                  \cap CopyTarget(MatchesOf(u[1])[u[2]], PostDirOf(u[1])) = {}

\* the notes the run processed successfully
Succeeded == {n \in CatalogueIds : noteRet[n].st = "returned" /\ noteRet[n].v.ok}

\* C4: after a batch run every successfully processed note has its own
\* directory content/post/<slug>, and no two notes share one.
C4_OneDirectoryPerNote ==
    (batchPc = "done" /\ lastUnpub = 0) =>
        /\ \A n \in Succeeded : PostDirOf(n) \in postDirs
        /\ \A n, m \in Succeeded : n # m => PostDirOf(n) # PostDirOf(m)

\* C5: the batch run never raises because of a single note: with notes whose
\* header is missing, unclosed, unparsable or no mapping, or whose generation
\* fails, it still returns the post files of the other publishable notes.
C5_BatchNeverRaises ==
    /\ batchPc # "raised"
    /\ batchPc = "done" =>
          \A n \in Succeeded : \E k \in DOMAIN processed : processed[k] = noteRet[n].v

\* the pool worker threads that hold a task
ActiveWorkers ==
    Cardinality({n \in CatalogueIds : NoteWorking(n)}) + Cardinality(RunningAssets)

\* C6: within one batch run the number of worker threads at work never
\* exceeds the configured pool width.
C6_WithinPoolWidth == ActiveWorkers <= NoteMaxWorkers

\* C7: parallel_process returns only after every submitted item has finished,
\* and, every worker call ending, a batch run that has started its pool ends
\* with no task left running.
C7_BlocksUntilAllDone ==
    /\ [](batchPc = "done" =>
             \A n \in CatalogueIds :
                 /\ notePc[n] \in {"none", "done"}
                 /\ notePc[n] = "done" => noteRet[n].st = "returned"
                 /\ assetPc[n] = <<>>)
    /\ [](\A n \in CatalogueIds :
             notePc[n] = "writing" =>
                 \A i \in DOMAIN MatchesOf(n) :
                     assetPc[n][i] = "done" /\ assetRet[n][i].st # "pending")
    /\ (batchPc = "pool" ~> batchPc = "done")

\* a run has returned after both of its notes, one with an asset pool, finished
C7_Witness ==
    /\ batchPc = "done"
    /\ Cardinality({n \in CatalogueIds : notePc[n] = "done"}) = 2
    /\ \E n \in CatalogueIds : notePc[n] = "done" /\ MatchesOf(n) # <<>>

\* C8: the mapping file is rewritten by the thread that runs the batch, and
\* the rewrite has ended before the first worker of the note pool starts; no
\* worker writes it, so every worker reads the rewritten mapping.
C8_MappingRewrittenBeforeWorkers ==
    /\ [](mapWriting => \A n \in CatalogueIds : notePc[n] = "none")
    /\ [](\A n \in CatalogueIds : notePc[n] # "none" => batchPc \in {"pool", "done"})
    /\ [][mapping' # mapping =>
             (batchPc = "mapping" /\ \A n \in CatalogueIds : notePc[n] = "none")]_vars
    /\ [][\A n \in CatalogueIds :
             (notePc[n] = "writing" /\ notePc'[n] = "done") =>
                 mapping \in MergedMappings(observed, existing)]_vars

\* a worker is writing its post while the mapping of this run, which has an
\* entry, is in the file
C8_Witness ==
    /\ \E n \in CatalogueIds : notePc[n] = "writing"
    /\ ~mapWriting
    /\ DOMAIN mapping # {}
    /\ mapping # existing

\* C9, as claimed: with a publishable note tagged [a] without categories, no
\* existing entry for a, and another note tagged [a] with categories [X] in
\* the same batch run, the mapping file holds a: X after the run.
C9_LearnsFromSameRun ==
    \A n1, n2 \in CatalogueIds :
        (/\ batchPc = "done"
         /\ n1 # n2
         /\ {n1, n2} \subseteq Succeeded
         /\ Parsed(n1).fm.tags = <<"a">> /\ Parsed(n1).fm.categories = <<>>
         /\ Parsed(n2).fm.tags = <<"a">> /\ Parsed(n2).fm.categories = <<"X">>
         /\ "a" \notin DOMAIN existing)
        => ("a" \in DOMAIN mapping /\ mapping["a"] = "X")

\* C9, amended: with a publishable note tagged [a] without categories, no
\* existing entry for a, and the generated posts that exist when the run
\* starts pairing a with X and with no other category, the mapping file
\* holds a: X after the run.
C9_LearnsFromGeneratedPosts ==
    \A n1 \in CatalogueIds :
        (/\ batchPc = "done"
         /\ n1 \in Succeeded
         /\ Parsed(n1).fm.tags = <<"a">> /\ Parsed(n1).fm.categories = <<>>
         /\ "a" \notin DOMAIN existing
         /\ "a" \in DOMAIN observed /\ observed["a"] = {"X"})
        => ("a" \in DOMAIN mapping /\ mapping["a"] = "X")

\* the second run found the post of the note tagged [a] with categories [X]
\* that the first run generated, and processed the note without categories
C9_Witness ==
    /\ batchPc = "done"
    /\ runs = 2
    /\ "a" \notin DOMAIN existing
    /\ "a" \in DOMAIN observed /\ observed["a"] = {"X"}
    /\ \E n1 \in Succeeded :
          Parsed(n1).fm.tags = <<"a">> /\ Parsed(n1).fm.categories = <<>>
    /\ mapping["a"] = "X"

\* C10: after a note that a batch run published is unpublished, its publish
\* flag is false and the post directory of its title's slug is gone.
C10_UnpublishRemovesPost ==
    \A n \in CatalogueIds :
        (lastUnpub = n /\ n \in generated) =>
            /\ ~Parsed(n).fm.publish
            /\ PostDirOf(n) \notin postDirs

\* the category observed first for tag t when the posts are scanned in order
FirstObserved(t, order, idx) ==
    WithLocal(SelectSeq(order, LAMBDA d : /\ idx[d].fm
                                          /\ idx[d].categories # <<>>
                                          /\ t \in Range(idx[d].tags)),
              LAMBDA hits : idx[hits[1]].categories[1])

\* C11: a tag observed with more than one category and without an existing
\* entry is mapped to the category observed first in scan order, and a warning
\* names the categories that were discarded.
C11_FirstObservedChosen ==
    call.op = "update_tag_category_mapping" =>
        \A t \in DOMAIN observed :
            (Cardinality(observed[t]) > 1 /\ t \notin DOMAIN existing) =>
                /\ mapping[t] = FirstObserved(t, call.order, index)
                /\ t \in DOMAIN call.warned
                /\ observed[t] \ {mapping[t]} \subseteq call.warned[t]

\* C12: when every observed tag has exactly one observed category, each
\* observed tag is mapped to that category, whatever entry it had before.
C12_SingleCategoryRecorded ==
    (/\ call.op = "update_tag_category_mapping"
     /\ \A t \in DOMAIN observed : Cardinality(observed[t]) = 1)
    => \A t \in DOMAIN observed : t \in DOMAIN mapping /\ observed[t] = {mapping[t]}

\* a scan with one category per tag has replaced a stale entry
C12_Witness ==
    /\ call.op = "update_tag_category_mapping"
    /\ DOMAIN observed # {}
    /\ \A t \in DOMAIN observed : Cardinality(observed[t]) = 1
    /\ \E t \in DOMAIN observed \cap DOMAIN existing :
          existing[t] \notin observed[t] /\ observed[t] = {mapping[t]}

HeaderClosed(text) ==
    /\ text # <<>>
    /\ text[1] = Delim
    /\ \E j \in 2..Len(text) : text[j] = Delim

\* C14: parse never raises on a note text: without a leading delimiter, with
\* a header that is not closed, and with a header block that is not valid
\* metadata it returns (none, whole text); otherwise the Metadata and the body.
C14_ParseNeverRaises ==
    \A n \in CatalogueIds :
        Exists(n) =>
            /\ Parsed(n).st # "raise"
            /\ ~HeaderClosed(notes[n]) =>
                  (Parsed(n).st = "none" /\ Parsed(n).body = notes[n])
            /\ Parsed(n).st = "none" => Parsed(n).body = notes[n]

\* the header of the text is closed and parses to no Metadata
HeaderUnparsable(text) ==
    HeaderClosed(text) /\ ExtractYamlAndContent(text).st # "ok"

\* C15: listPublishable returns exactly the notes whose header parses and
\* whose publish flag is true; a note whose header cannot be parsed is
\* skipped with a logged warning, and the call does not raise.
C15_ListSkipsWithWarning ==
    call.op = "list_published_markdowns" =>
        /\ ~call.raised
        /\ call.published =
              {n \in CatalogueIds :
                  Exists(n) /\ Parsed(n).st = "ok" /\ Parsed(n).fm.publish}
        /\ \A n \in CatalogueIds :
              (Exists(n) /\ HeaderUnparsable(notes[n])) =>
                  (n \notin call.published /\ n \in call.warned)
\* C16: once a Metadata object is constructed, and after every update() with
\* any partial fields, tags and categories are present and are lists, and no
\* field holds a null
C16_TagsAndCategoriesAreLists ==
    call.op \in {"FrontMatter", "update"} =>
        /\ {"tags", "categories"} \subseteq DOMAIN meta
        /\ meta["tags"].t = "list"
        /\ meta["categories"].t = "list"
        /\ \A key \in DOMAIN meta : meta[key].t # "null"

\* C17: the header of a normalised Metadata m, written and read back, parses
\* to a Metadata equal to m
C17_RoundTrip ==
    call.op = "extract_yaml_and_content" =>
        /\ call.parsed.st = "ok"
        /\ call.parsed.fm = call.m

\* C18: when set_publish_false changes the flag, the body read from the
\* rewritten note equals the body read from it before the call
C18_BodyPreserved ==
    (call.op = "set_publish_false" /\ call.ret) =>
        ExtractYamlAndContent(notes[call.n]).body
            = ExtractYamlAndContent(call.before).body

\* C19: on a note without metadata, or whose flag is false already,
\* set_publish_false returns false and leaves the file as it was; it returns
\* true only when the flag was true before and is false afterwards
C19_NoOpReturnsFalse ==
    call.op = "set_publish_false" =>
        \E p \in {ExtractYamlAndContent(call.before)},
           q \in {ExtractYamlAndContent(notes[call.n])} :
            /\ (p.st # "ok" \/ ~p.fm.publish)
                  => (~call.ret /\ notes[call.n] = call.before)
            /\ call.ret
                  => (p.st = "ok" /\ p.fm.publish /\ q.st = "ok" /\ ~q.fm.publish)

\* a note whose flag an earlier call flipped is asked again: nothing to do
C19_Witness ==
    /\ call.op = "set_publish_false"
    /\ ~call.ret
    /\ call.before # Catalogue[call.n]
    /\ notes[call.n] = call.before

MatchingNames(image_name) ==
    {CleanName(image_name), Replace(CleanName(image_name), " ", "-"),
     Replace(CleanName(image_name), "-", " ")}

\* the positions of the searched roots that hold a matching file
RootsWithMatch(disk, roots, image_name) ==
    {i \in DOMAIN roots : disk[roots[i]] \cap MatchingNames(image_name) # {}}

\* C21: when roots hold files matching the reference, the file returned is
\* in the earliest of them, in the order image directory, note directory,
\* extra root
C21_EarliestRootWins ==
    call.op = "find_image" =>
        \E hit \in {RootsWithMatch(call.disk, call.roots, call.name)} :
            hit # {} => (call.ret.found
                         /\ call.ret.root = call.roots[SetMin(hit)])

\* C22: a file whose name is the reference with its spaces replaced by
\* hyphens, or with its hyphens replaced by spaces, is found in whichever
\* searched root holds it
C22_VariantsMatch ==
    call.op = "find_image" =>
        \A i \in DOMAIN call.roots :
            \A variant \in {Replace(CleanName(call.name), " ", "-"),
                            Replace(CleanName(call.name), "-", " ")} :
                variant \in call.disk[call.roots[i]] =>
                    /\ call.ret.found
                    /\ call.ret.name \in MatchingNames(call.name)
                    /\ call.ret.name \in call.disk[call.ret.root]

\* the only file on the disk is the hyphen variant of a reference with
\* spaces, in the extra root, and it is the file returned
C22_Witness ==
    /\ call.op = "find_image"
    /\ Contains(call.name, " ")
    /\ call.disk.images = {} /\ call.disk.notes = {}
    /\ call.disk.extra = {Replace(call.name, " ", "-")}
    /\ call.disk.extra # {call.name}
    /\ call.ret = [found |-> TRUE, root |-> "extra",
                   name |-> Replace(call.name, " ", "-")]

\* C23: when a post is generated for a note, every ![[name]] of the note
\* that no root resolves is in the body of the post as it was in the note
C23_UnresolvedLeftUntouched ==
    [][\A n \in CatalogueIds :
          (notePc[n] = "writing" /\ notePc'[n] = "done" /\ n \in generated') =>
              \A token \in Range(Parsed(n).body) :
                  (token.k = "embed" /\ ~ResolveImage(token.name).found) =>
                      token \in Range(index'[PostDirOf(n)].body)]_vars

\* C24: process_mermaid_blocks applied to its own output gives that output
\* back
C24_MermaidIdempotent ==
    call.op = "process_mermaid_blocks" =>
        ProcessMermaidBlocks(call.text) = call.text

\* C25: the block $$a + b + c + d = e$$ comes out as one line $$...$$, not
\* as an aligned block
C25_ShortSumStaysSingleLine ==
    (call.op = "process_latex_formulas" /\ call.formula = SumFormula) =>
        call.ret.form = "single"

\* C26: the list list_published_markdowns returns is in ascending order of
\* last-modification time, oldest first
C26_ListedOldestFirst ==
    call.op = "list_published_markdowns" =>
        \A i, j \in DOMAIN call.order :
            i < j => call.mtime[call.order[i]] <= call.mtime[call.order[j]]

\* the title of note n lower-cased, with its spaces replaced by hyphens
SlugOfNote(n) == Replace(Lower(TitleOf(n)), " ", "-")

C28_CorruptedHistoryLoads ==
    (call.op \in {"HistoryManager", "load_history"} /\ call.file = "invalid") =>
        /\ history.mgr = "ready"
        /\ history.lists = NoRecords

\* C29: at most one of running, paused, cancelled and completed holds;
\* pause is on offer only while running, resume only while paused, and none
\* of pause, resume and cancel once the operation is cancelled or completed
C29_OneStateAtATime ==
    /\ Cardinality({f \in {"is_running", "is_paused", "is_cancelled", "is_completed"} :
                       controls[f]}) <= 1
    /\ controls.can_pause => controls.is_running
    /\ controls.can_resume => controls.is_paused
    /\ (controls.is_cancelled \/ controls.is_completed) =>
           (~controls.can_pause /\ ~controls.can_resume /\ ~controls.can_cancel)

\* C30: completed_tasks + failed_tasks never exceeds total_tasks, the
\* percentage is within 0..100, and is_completed holds exactly when
\* completed + failed equals a positive total
C30_ProgressWithinTotal ==
    /\ Processed(monitor) <= monitor.total_tasks
    /\ GetProgressPercentage(monitor) \in 0..100
    /\ IsCompleted(monitor) <=>
           (Processed(monitor) = monitor.total_tasks /\ monitor.total_tasks > 0)

====
